---- MODULE Spec2Model ----
(***************************************************************************)
(* Model of lcanalyzer/models.py: the column reducers mean_mag, max_mag    *)
(* and min_mag, the aggregator calc_stats and the normalizer normalize_lc, *)
(* applied by a caller to a collection of lightcurve tables.               *)
(*                                                                         *)
(* Magnitudes are integers in the tables (as in the repository's tests)    *)
(* and exact rationals in results; the binary rounding of a float mean is  *)
(* not modelled.  pandas' reductions skip undefined cells (skipna=True is  *)
(* the default of Series.mean/max/min), compare strings lexicographically  *)
(* and refuse arithmetic on strings with a TypeError.                      *)
(***************************************************************************)
EXTENDS Integers, Sequences, FiniteSets, TLC

VARIABLES
    lc,     \* the band collection: band name -> table
    call    \* the call the caller has made and its outcome, or NoCall

vars == <<lc, call>>

\* Bounds of the model.
MaxRows == 3      \* rows of the table of a one-band collection
MaxMag == 1       \* magnitudes of a table are drawn from -1 .. MaxMag
BandRows == 2     \* rows of each table of a two-band collection
MaxBands == 2     \* length of the band sequence handed to calc_stats

-----------------------------------------------------------------------------
(* Scalar values: a float (an exact rational num/den in lowest terms), the *)
(* undefined marker NaN, an infinity, a string; and a raised exception.    *)

Abs(n) == IF n < 0 THEN 0 - n ELSE n

RECURSIVE GCD(_, _)
GCD(m, n) == IF n = 0 THEN m ELSE GCD(n, m % n)

Float(n, d) ==
    LET s == IF d < 0 THEN 0 - 1 ELSE 1
        g == GCD(Abs(n), Abs(d))
    IN  [kind |-> "float", num |-> (s * n) \div g, den |-> (s * d) \div g, str |-> ""]

NaN == [kind |-> "nan", num |-> 0, den |-> 1, str |-> ""]

Inf(sign) == [kind |-> "inf", num |-> sign, den |-> 1, str |-> ""]

Str(s) == [kind |-> "str", num |-> 0, den |-> 1, str |-> s]

Raise(e) == [kind |-> e, num |-> 0, den |-> 1, str |-> ""]

IsError(v) == v.kind \in {"TypeError", "KeyError"}

\* The strings a text column holds, in Python's (lexicographic) order.
StrOrder == <<"x", "y">>

ord(s) == CHOOSE i \in 1..Len(StrOrder) : StrOrder[i] = s

\* x < y between two floats or between two strings.
Less(x, y) ==
    IF x.kind = "str" THEN ord(x.str) < ord(y.str)
    ELSE x.num * y.den < y.num * x.den

Add(x, y) == Float(x.num * y.den + y.num * x.den, x.den * y.den)

\* x - y and x / y of floating-point operands: an undefined operand gives
\* NaN, 0/0 gives NaN and any other division by zero an infinity.
Sub(x, y) ==
    IF x.kind = "nan" \/ y.kind = "nan" THEN NaN
    ELSE Float(x.num * y.den - y.num * x.den, x.den * y.den)

Div(x, y) ==
    IF x.kind = "nan" \/ y.kind = "nan" THEN NaN
    ELSE IF y.num = 0
         THEN IF x.num = 0 THEN NaN ELSE Inf(IF x.num < 0 THEN 0 - 1 ELSE 1)
         ELSE Float(x.num * y.den, x.den * y.num)

-----------------------------------------------------------------------------
(* Columns (pandas Series) are sequences of scalar values.                 *)

dropna(vals) == SelectSeq(vals, LAMBDA v : v.kind # "nan")

is_object(vals) == \E i \in 1..Len(vals) : vals[i].kind = "str"

all_str(vals) == \A i \in 1..Len(vals) : vals[i].kind = "str"

RECURSIVE nansum(_)
nansum(d) == IF Len(d) = 0 THEN Float(0, 1) ELSE Add(d[1], nansum(Tail(d)))

RECURSIVE nanmax(_)
nanmax(d) ==
    IF Len(d) = 1 THEN d[1]
    ELSE LET m == nanmax(Tail(d)) IN IF Less(m, d[1]) THEN d[1] ELSE m

RECURSIVE nanmin(_)
nanmin(d) ==
    IF Len(d) = 1 THEN d[1]
    ELSE LET m == nanmin(Tail(d)) IN IF Less(d[1], m) THEN d[1] ELSE m

\* Series.mean() dividing by the number of rows, undefined ones included.
Series_mean_all_rows(vals) ==
    IF is_object(vals) THEN Raise("TypeError")
    ELSE LET d == dropna(vals)
         IN  IF Len(d) = 0 THEN NaN ELSE Div(nansum(d), Float(Len(vals), 1))

\* Series.mean(): strings cannot be averaged; undefined cells are skipped;
\* nothing left to average gives NaN.
Series_mean(vals) ==
    IF is_object(vals) THEN Raise("TypeError")
    ELSE LET d == dropna(vals)
         IN  IF Len(d) = 0 THEN NaN ELSE Div(nansum(d), Float(Len(d), 1))

\* Series.max() and Series.min(): a column of strings has a greatest and a
\* least string; strings and numbers do not compare.
Series_max(vals) ==
    IF is_object(vals)
    THEN IF all_str(vals) THEN nanmax(vals) ELSE Raise("TypeError")
    ELSE LET d == dropna(vals) IN IF Len(d) = 0 THEN NaN ELSE nanmax(d)

Series_min(vals) ==
    IF is_object(vals)
    THEN IF all_str(vals) THEN nanmin(vals) ELSE Raise("TypeError")
    ELSE LET d == dropna(vals) IN IF Len(d) = 0 THEN NaN ELSE nanmin(d)

-----------------------------------------------------------------------------
(* The data argument: a table (column name -> column) or a plain string.   *)

DataFrame(cols) == [type |-> "DataFrame", columns |-> cols]

PyStr == [type |-> "str", columns |-> <<>>]

\* data[mag_col] with the string taken for a mapping that lacks the name.
getitem_lookup(data, mag_col) ==
    IF data.type = "str" \/ mag_col \notin DOMAIN data.columns
    THEN [kind |-> "KeyError", vals |-> <<>>]
    ELSE [kind |-> "Series", vals |-> data.columns[mag_col]]

\* data[mag_col]: a string indexed by a string is a TypeError, a table
\* indexed by the name of a column it lacks a KeyError.
getitem(data, mag_col) ==
    IF data.type = "str" THEN [kind |-> "TypeError", vals |-> <<>>]
    ELSE IF mag_col \notin DOMAIN data.columns THEN [kind |-> "KeyError", vals |-> <<>>]
    ELSE [kind |-> "Series", vals |-> data.columns[mag_col]]

mean_mag(data, mag_col) ==
    LET s == getitem(data, mag_col)
    IN  IF s.kind # "Series" THEN Raise(s.kind) ELSE Series_mean(s.vals)

max_mag(data, mag_col) ==
    LET s == getitem(data, mag_col)
    IN  IF s.kind # "Series" THEN Raise(s.kind) ELSE Series_max(s.vals)

min_mag(data, mag_col) ==
    LET s == getitem(data, mag_col)
    IN  IF s.kind # "Series" THEN Raise(s.kind) ELSE Series_min(s.vals)

-----------------------------------------------------------------------------
(* calc_stats.  The loop fills the dictionary stats band by band, in the   *)
(* order of bands; the first failing lookup or reduction ends the call.    *)

BandOrder == <<"g", "r">>      \* the band names, in Python's string order

Bands == {BandOrder[i] : i \in 1..Len(BandOrder)}

StatNames == <<"max", "mean", "min">>

\* sorted(keys) of a set of band names.
sorted(keys) == SelectSeq(BandOrder, LAMBDA b : b \in keys)

FrameError(e) == [kind |-> e, index |-> <<>>, columns |-> <<>>, cells |-> <<>>]

\* pd.DataFrame.from_records(stats) of a dictionary of dictionaries: the
\* columns are sorted(stats), the index is the keys of the inner
\* dictionaries in their insertion order.
from_records(stats) ==
    [kind    |-> "DataFrame",
     index   |-> IF DOMAIN stats = {} THEN <<>> ELSE StatNames,
     columns |-> sorted(DOMAIN stats),
     cells   |-> stats]

\* The loop passing over a band that lc does not hold.
RECURSIVE calc_stats_loop_skip(_, _, _, _, _)
calc_stats_loop_skip(lc_, bands, mag_col, i, stats) ==
    IF i > Len(bands) THEN [kind |-> "ok", stats |-> stats]
    ELSE LET b == bands[i] IN
         IF b \notin DOMAIN lc_ THEN calc_stats_loop_skip(lc_, bands, mag_col, i + 1, stats)
         ELSE LET mx == max_mag(lc_[b], mag_col) IN
              IF IsError(mx) THEN [kind |-> mx.kind, stats |-> <<>>]
              ELSE LET me == mean_mag(lc_[b], mag_col) IN
                   IF IsError(me) THEN [kind |-> me.kind, stats |-> <<>>]
                   ELSE LET mn == min_mag(lc_[b], mag_col) IN
                        IF IsError(mn) THEN [kind |-> mn.kind, stats |-> <<>>]
                        ELSE LET stat == [max |-> mx, mean |-> me, min |-> mn]
                             IN  calc_stats_loop_skip(lc_, bands, mag_col, i + 1,
                                     [x \in DOMAIN stats \cup {b} |->
                                         IF x = b THEN stat ELSE stats[x]])

RECURSIVE calc_stats_loop(_, _, _, _, _)
calc_stats_loop(lc_, bands, mag_col, i, stats) ==
    IF i > Len(bands) THEN [kind |-> "ok", stats |-> stats]
    ELSE LET b == bands[i] IN
         IF b \notin DOMAIN lc_ THEN [kind |-> "KeyError", stats |-> <<>>]
         ELSE LET mx == max_mag(lc_[b], mag_col) IN
              IF IsError(mx) THEN [kind |-> mx.kind, stats |-> <<>>]
              ELSE LET me == mean_mag(lc_[b], mag_col) IN
                   IF IsError(me) THEN [kind |-> me.kind, stats |-> <<>>]
                   ELSE LET mn == min_mag(lc_[b], mag_col) IN
                        IF IsError(mn) THEN [kind |-> mn.kind, stats |-> <<>>]
                        ELSE LET stat == [max |-> mx, mean |-> me, min |-> mn]
                             IN  calc_stats_loop(lc_, bands, mag_col, i + 1,
                                     [x \in DOMAIN stats \cup {b} |->
                                         IF x = b THEN stat ELSE stats[x]])

\* The value returned (or the exception raised) and the collection as the
\* call leaves it.
calc_stats(lc_, bands, mag_col) ==
    LET run == calc_stats_loop(lc_, bands, mag_col, 1, <<>>)
    IN  [ret |-> IF run.kind = "ok" THEN from_records(run.stats) ELSE FrameError(run.kind),
         lc  |-> lc_]

-----------------------------------------------------------------------------
(* normalize_lc.                                                           *)

SeriesError(e) == [kind |-> e, vals |-> <<>>]

\* df - x: the subtraction is applied to every cell of every column, and a
\* string cell (or a string x with any cell at all) is a TypeError.
frame_sub(df, x) ==
    IF \E c \in DOMAIN df.columns : \E i \in 1..Len(df.columns[c]) :
           df.columns[c][i].kind = "str" \/ x.kind = "str"
    THEN [kind |-> "TypeError", df |-> df]
    ELSE [kind |-> "DataFrame",
          df   |-> DataFrame([c \in DOMAIN df.columns |->
                       [i \in 1..Len(df.columns[c]) |-> Sub(df.columns[c][i], x)]])]

series_sub(vals, x) == [i \in 1..Len(vals) |-> Sub(vals[i], x)]

series_div(vals, x) == [i \in 1..Len(vals) |-> Div(vals[i], x)]

fillna(vals, v) == [i \in 1..Len(vals) |-> IF vals[i].kind = "nan" THEN v ELSE vals[i]]

\* normalize_lc writing the normalized series back into df[mag_col].
normalize_lc_inplace(df, mag_col) ==
    LET min == min_mag(df, mag_col) IN
    IF IsError(min) THEN [ret |-> SeriesError(min.kind), df |-> df]
    ELSE LET shifted == frame_sub(df, min) IN
         IF shifted.kind # "DataFrame" THEN [ret |-> SeriesError(shifted.kind), df |-> df]
         ELSE LET max == max_mag(shifted.df, mag_col)
                  lc1 == series_div(series_sub(df.columns[mag_col], min), max)
                  lc2 == fillna(lc1, Float(0, 1))
              IN  [ret |-> [kind |-> "Series", vals |-> lc2],
                   df  |-> DataFrame([c \in DOMAIN df.columns |->
                               IF c = mag_col THEN lc2 ELSE df.columns[c]])]

\* normalize_lc dividing by the maximum of the column as it is, not shifted.
normalize_lc_unshifted(df, mag_col) ==
    LET min == min_mag(df, mag_col) IN
    IF IsError(min) THEN [ret |-> SeriesError(min.kind), df |-> df]
    ELSE LET shifted == frame_sub(df, min) IN
         IF shifted.kind # "DataFrame" THEN [ret |-> SeriesError(shifted.kind), df |-> df]
         ELSE LET max == max_mag(df, mag_col)
                  lc1 == series_div(series_sub(df.columns[mag_col], min), max)
                  lc2 == fillna(lc1, Float(0, 1))
              IN  [ret |-> [kind |-> "Series", vals |-> lc2], df |-> df]

\* The series returned (or the exception raised) and the table as the call
\* leaves it.
normalize_lc(df, mag_col) ==
    LET min == min_mag(df, mag_col) IN
    IF IsError(min) THEN [ret |-> SeriesError(min.kind), df |-> df]
    ELSE LET shifted == frame_sub(df, min) IN
         IF shifted.kind # "DataFrame" THEN [ret |-> SeriesError(shifted.kind), df |-> df]
         ELSE LET max == max_mag(shifted.df, mag_col)
                  lc1 == series_div(series_sub(df.columns[mag_col], min), max)
                  lc2 == fillna(lc1, Float(0, 1))
              IN  [ret |-> [kind |-> "Series", vals |-> lc2], df |-> df]

-----------------------------------------------------------------------------
(* The inputs.                                                             *)

Mags == (0 - 1)..MaxMag

MagCols == {"a", "b"}

NonTable == "string"        \* the plain string handed over in place of a table

Cells == {Float(m, 1) : m \in Mags} \cup {NaN}

TextCells == {Str(StrOrder[i]) : i \in 1..Len(StrOrder)}

\* The columns of n rows: numbers (some possibly undefined), or strings.
Columns(n) == [1..n -> Cells] \cup [1..n -> TextCells]

\* The columns of n defined numbers, and of n strings.
DefinedColumns(n) == [1..n -> Cells \ {NaN}] \cup [1..n -> TextCells]

\* A second column beside the magnitudes: a row counter, or a label.
SideColumns(n) == {[i \in 1..n |-> Float(i, 1)], [i \in 1..n |-> Str("x")]}

Tables ==
    UNION {{DataFrame([c \in MagCols |-> IF c = "a" THEN a ELSE b]) :
               a \in SideColumns(n), b \in Columns(n)} : n \in 0..MaxRows}

BandTables == {DataFrame([c \in {"b"} |-> b]) : b \in DefinedColumns(BandRows)}

\* The argument a call names: a table of the collection, or the string.
Arg(k) == IF k \in DOMAIN lc THEN lc[k] ELSE PyStr

NoCall == [op |-> "none", data |-> "", bands |-> <<>>, mag_col |-> "",
           ret |-> <<>>, prev |-> <<>>]

RECURSIVE SeqsUpTo(_, _)
SeqsUpTo(S, n) ==
    IF n = 0 THEN {<<>>}
    ELSE LET shorter == SeqsUpTo(S, n - 1)
         IN  shorter \cup {Append(q, x) : q \in shorter, x \in S}

BandSeqs == SeqsUpTo(Bands, MaxBands)

\* load_dataset has filled the collection: one band with a table of up to
\* MaxRows rows and two columns, or every band with a one-column table.
Init ==
    /\ call = NoCall
    /\ \/ \E t \in Tables : lc = [k \in {"g"} |-> t]
       \/ lc \in [Bands -> BandTables]

-----------------------------------------------------------------------------
(* The caller's steps: one call at a time, then the result is taken.       *)

CallMeanMag(k, c) ==
    /\ call.op = "none"
    /\ call' = [op |-> "mean_mag", data |-> k, bands |-> <<>>, mag_col |-> c,
                ret |-> mean_mag(Arg(k), c), prev |-> <<>>]
    /\ UNCHANGED lc

CallMaxMag(k, c) ==
    /\ call.op = "none"
    /\ call' = [op |-> "max_mag", data |-> k, bands |-> <<>>, mag_col |-> c,
                ret |-> max_mag(Arg(k), c), prev |-> <<>>]
    /\ UNCHANGED lc

CallMinMag(k, c) ==
    /\ call.op = "none"
    /\ call' = [op |-> "min_mag", data |-> k, bands |-> <<>>, mag_col |-> c,
                ret |-> min_mag(Arg(k), c), prev |-> <<>>]
    /\ UNCHANGED lc

CallCalcStats(bands, c) ==
    /\ call.op = "none"
    /\ LET r == calc_stats(lc, bands, c)
       IN  /\ call' = [op |-> "calc_stats", data |-> "", bands |-> bands, mag_col |-> c,
                       ret |-> r.ret, prev |-> <<>>]
           /\ lc' = r.lc

CallNormalizeLc(k, c) ==
    /\ call.op = "none"
    /\ LET r == normalize_lc(Arg(k), c)
       IN  /\ call' = [op |-> "normalize_lc", data |-> k, bands |-> <<>>, mag_col |-> c,
                       ret |-> r.ret, prev |-> <<>>]
           /\ lc' = IF k \in DOMAIN lc THEN [lc EXCEPT ![k] = r.df] ELSE lc

\* The caller puts the normalized series in place of the magnitudes in a
\* copy of the table and normalizes the copy.
NormalizeAgain ==
    /\ call.op = "normalize_lc"
    /\ call.ret.kind = "Series"
    /\ LET df  == lc[call.data]
           df2 == DataFrame([c \in DOMAIN df.columns |->
                      IF c = call.mag_col THEN call.ret.vals ELSE df.columns[c]])
           r   == normalize_lc(df2, call.mag_col)
       IN  call' = [op |-> "normalize_again", data |-> call.data, bands |-> <<>>,
                    mag_col |-> call.mag_col, ret |-> r.ret, prev |-> call.ret]
    /\ UNCHANGED lc

Return ==
    /\ call.op # "none"
    /\ call' = NoCall
    /\ UNCHANGED lc

Next ==
    \/ \E k \in DOMAIN lc \cup {NonTable}, c \in MagCols : CallMeanMag(k, c)
    \/ \E k \in DOMAIN lc \cup {NonTable}, c \in MagCols : CallMaxMag(k, c)
    \/ \E k \in DOMAIN lc \cup {NonTable}, c \in MagCols : CallMinMag(k, c)
    \/ \E k \in DOMAIN lc \cup {NonTable}, c \in MagCols : CallNormalizeLc(k, c)
    \/ \E bands \in BandSeqs, c \in MagCols : CallCalcStats(bands, c)
    \/ NormalizeAgain
    \/ Return

Spec == Init /\ [][Next]_vars

-----------------------------------------------------------------------------
(* Vocabulary of the properties.                                           *)

IsFloat(v) == v.kind = "float"

\* x <= y and x == y as floating-point comparisons: false on NaN.
Leq(x, y) == IsFloat(x) /\ IsFloat(y) /\ x.num * y.den <= y.num * x.den

Eq(x, y) == IsFloat(x) /\ IsFloat(y) /\ x = y

IsReducer == call.op \in {"mean_mag", "max_mag", "min_mag"}

\* The call named a table of the collection and a column it has.
HasCol == call.data \in DOMAIN lc /\ call.mag_col \in DOMAIN lc[call.data].columns

Col == lc[call.data].columns[call.mag_col]

Numeric(col) == \A i \in 1..Len(col) : col[i].kind \in {"float", "nan"}

Text(col) == Len(col) > 0 /\ \A i \in 1..Len(col) : col[i].kind = "str"

DefinedRows(col) == {i \in 1..Len(col) : col[i].kind = "float"}

AllDefined(col) == Len(col) > 0 /\ DefinedRows(col) = 1..Len(col)

HasNaN(col) == \E i \in 1..Len(col) : col[i].kind = "nan"

NonConstant(col) == \E i, j \in DefinedRows(col) : col[i] # col[j]

\* The sum of the defined magnitudes of the first n rows of a table column.
RECURSIVE TotalTo(_, _)
TotalTo(col, n) ==
    IF n = 0 THEN 0
    ELSE TotalTo(col, n - 1) + (IF col[n].kind = "float" THEN col[n].num ELSE 0)

\* v is the named statistic of the defined rows of col, and NaN when col
\* has no defined row.
IsStatOf(stat, v, col) ==
    LET D == DefinedRows(col) IN
    IF D = {} THEN v = NaN
    ELSE /\ IsFloat(v)
         /\ stat = "max" => (\E i \in D : col[i] = v) /\ (\A i \in D : Leq(col[i], v))
         /\ stat = "min" => (\E i \in D : col[i] = v) /\ (\A i \in D : Leq(v, col[i]))
         /\ stat = "mean" => v.num * Cardinality(D) = v.den * TotalTo(col, Len(col))

StatOfOp == [mean_mag |-> "mean", max_mag |-> "max", min_mag |-> "min"]

\* The three reducers on the arguments of the call made, the called one by
\* the value the call returned.
MinOfCall == IF call.op = "min_mag" THEN call.ret ELSE min_mag(lc[call.data], call.mag_col)

MeanOfCall == IF call.op = "mean_mag" THEN call.ret ELSE mean_mag(lc[call.data], call.mag_col)

MaxOfCall == IF call.op = "max_mag" THEN call.ret ELSE max_mag(lc[call.data], call.mag_col)

Ordered ==
    /\ Leq(MinOfCall, MeanOfCall)
    /\ Leq(MeanOfCall, MaxOfCall)
    /\ Len(Col) = 1 => Eq(MinOfCall, Col[1]) /\ Eq(MeanOfCall, Col[1]) /\ Eq(MaxOfCall, Col[1])

\* The magnitude column of band b in a calc_stats call.
BandCol(b) == lc[b].columns[call.mag_col]

BandHasCol(b) == b \in DOMAIN lc /\ call.mag_col \in DOMAIN lc[b].columns

MissingAt == {i \in 1..Len(call.bands) : call.bands[i] \notin DOMAIN lc}

FirstMissing == CHOOSE i \in MissingAt : \A j \in MissingAt : i <= j

-----------------------------------------------------------------------------
(* The properties.                                                         *)

\* C1: calc_stats, for bands that are all keys of lc (here: distinct, at
\* least one, each with a numeric magnitude column), returns a table with
\* the rows max, mean, min, the columns the band names in the order given,
\* and in each cell the reducer's value for that band.
C1_ColumnsInGivenOrder ==
    ( /\ call.op = "calc_stats"
      /\ Len(call.bands) > 0
      /\ \A i, j \in 1..Len(call.bands) : i # j => call.bands[i] # call.bands[j]
      /\ \A i \in 1..Len(call.bands) :
            BandHasCol(call.bands[i]) /\ Numeric(BandCol(call.bands[i])) )
    => /\ call.ret.kind = "DataFrame"
       /\ call.ret.index = StatNames
       /\ call.ret.columns = call.bands
       /\ \A i \in 1..Len(call.bands) :
             LET b == call.bands[i] IN
             call.ret.cells[b] = [max  |-> max_mag(lc[b], call.mag_col),
                                  mean |-> mean_mag(lc[b], call.mag_col),
                                  min  |-> min_mag(lc[b], call.mag_col)]

\* C2 as stated: for any table (of at least one row) and numeric column,
\* min_mag <= mean_mag <= max_mag, and the three equal the single value of
\* a one-row table.
C2_OrderedOnAnyTable ==
    (IsReducer /\ HasCol /\ Numeric(Col) /\ Len(Col) > 0) => Ordered

\* C2 amended: for any table whose numeric column holds at least one
\* defined value, min_mag <= mean_mag <= max_mag, and the three equal the
\* single value of a one-row table.
C2_OrderedOnDefined ==
    (IsReducer /\ HasCol /\ Numeric(Col) /\ DefinedRows(Col) # {}) => Ordered

\* A mean strictly between the minimum and the maximum of three rows.
C2_Witness ==
    /\ call.op = "mean_mag" /\ HasCol /\ Numeric(Col) /\ Len(Col) = 3
    /\ Leq(MinOfCall, call.ret) /\ MinOfCall # call.ret
    /\ Leq(call.ret, MaxOfCall) /\ MaxOfCall # call.ret

\* The least and the greatest magnitude of a fully defined column.
LowOf(col) == CHOOSE v \in {col[i] : i \in 1..Len(col)} : \A i \in 1..Len(col) : Leq(v, col[i])

HighOf(col) == CHOOSE v \in {col[i] : i \in 1..Len(col)} : \A i \in 1..Len(col) : Leq(col[i], v)

\* C3: normalize_lc on a table whose magnitudes are not all equal returns
\* one value per row, in row order, each (value - lo) / hi with lo the
\* minimum and hi the maximum minus lo; every value lies in [0, 1], the
\* minimum maps to 0 and the maximum to 1.
C3_NormalizedIntoUnitRange ==
    (call.op = "normalize_lc" /\ HasCol /\ AllDefined(Col) /\ NonConstant(Col))
    => /\ call.ret.kind = "Series"
       /\ Len(call.ret.vals) = Len(Col)
       /\ \A i \in 1..Len(Col) :
             /\ call.ret.vals[i] = Div(Sub(Col[i], LowOf(Col)), Sub(HighOf(Col), LowOf(Col)))
             /\ Leq(Float(0, 1), call.ret.vals[i]) /\ Leq(call.ret.vals[i], Float(1, 1))
             /\ Col[i] = LowOf(Col) => call.ret.vals[i] = Float(0, 1)
             /\ Col[i] = HighOf(Col) => call.ret.vals[i] = Float(1, 1)

\* C4: normalize_lc on a table whose magnitudes are all equal returns a
\* series of zeros as long as the table: no NaN and no infinity in it.
C4_ConstantGivesZeros ==
    (call.op = "normalize_lc" /\ HasCol /\ AllDefined(Col) /\ ~NonConstant(Col))
    => /\ call.ret.kind = "Series"
       /\ Len(call.ret.vals) = Len(Col)
       /\ \A i \in 1..Len(Col) : call.ret.vals[i] = Float(0, 1)

\* The reductions of band b raise a TypeError: its magnitudes are strings.
BandTypeError(b) == BandHasCol(b) /\ is_object(BandCol(b))

BandReduces(b) == BandHasCol(b) /\ ~is_object(BandCol(b))

\* C5 as stated: calc_stats ends with a lookup error whenever a name of
\* bands is not a key of lc, wherever the name sits.
C5_MissingBandIsLookupError ==
    (call.op = "calc_stats" /\ MissingAt # {}) => call.ret.kind = "KeyError"

\* C5 amended: whenever a name of bands is not a key of lc, calc_stats
\* returns no table at all; it ends with the lookup error unless a band
\* before the missing name has already failed with a type error.
C5_MissingBandAborts ==
    (call.op = "calc_stats" /\ MissingAt # {})
    => /\ call.ret.kind \in {"KeyError", "TypeError"}
       /\ call.ret.columns = <<>> /\ call.ret.cells = <<>>
       /\ call.ret.kind = "TypeError" =>
             \E j \in 1..(FirstMissing - 1) : BandTypeError(call.bands[j])
       /\ (\A j \in 1..(FirstMissing - 1) : BandReduces(call.bands[j])) =>
             call.ret.kind = "KeyError"

\* The missing name follows a band that was reduced: nothing is returned.
C5_Witness ==
    /\ call.op = "calc_stats" /\ Len(call.bands) = 2
    /\ call.bands[1] \in DOMAIN lc /\ BandReduces(call.bands[1])
    /\ call.bands[2] \notin DOMAIN lc
    /\ call.ret.kind = "KeyError"

\* C6: each reducer fails with a type error when the column holds text.
C6_TextColumnIsTypeError ==
    (IsReducer /\ HasCol /\ Text(Col)) => call.ret.kind = "TypeError"

\* C7: max_mag with a plain string in place of the table raises a type
\* error, whatever the column name.
C7_StringInputIsTypeError ==
    (call.op = "max_mag" /\ call.data = NonTable) => call.ret.kind = "TypeError"

C7_Witness ==
    call.op = "max_mag" /\ call.data = NonTable /\ call.ret.kind = "TypeError"

\* C8: no call, successful or failing, changes a table or the collection.
C8_InputsUnchanged == [][lc' = lc]_vars

\* A normalization has returned values other than the magnitudes, and a
\* calc_stats or a failing call can follow it.
C8_Witness ==
    /\ call.op = "normalize_lc" /\ HasCol
    /\ call.ret.kind = "Series" /\ call.ret.vals # Col

\* C9: normalizing the output of normalize_lc on a non-constant column
\* returns that output unchanged; its minimum is 0 and its maximum 1.
C9_NormalizeIdempotent ==
    (call.op = "normalize_again" /\ NonConstant(Col))
    => /\ call.ret.kind = "Series"
       /\ call.ret.vals = call.prev.vals
       /\ Series_min(call.prev.vals) = Float(0, 1)
       /\ Series_max(call.prev.vals) = Float(1, 1)

\* The output normalized again holds a value strictly inside (0, 1).
C9_Witness ==
    /\ call.op = "normalize_again" /\ NonConstant(Col)
    /\ \E i \in 1..Len(call.ret.vals) :
          /\ Leq(Float(0, 1), call.ret.vals[i]) /\ call.ret.vals[i] # Float(0, 1)
          /\ Leq(call.ret.vals[i], Float(1, 1)) /\ call.ret.vals[i] # Float(1, 1)

\* C10: the reducers propagate undefined values: a column with an undefined
\* entry makes mean_mag, max_mag and min_mag, and the cells of calc_stats
\* for that band, undefined; no row is dropped.
C10_NaNPropagates ==
    /\ (IsReducer /\ HasCol /\ Numeric(Col) /\ HasNaN(Col)) => call.ret = NaN
    /\ (call.op = "calc_stats" /\ call.ret.kind = "DataFrame") =>
          \A b \in DOMAIN call.ret.cells : HasNaN(BandCol(b)) =>
              /\ call.ret.cells[b].max = NaN
              /\ call.ret.cells[b].mean = NaN
              /\ call.ret.cells[b].min = NaN

-----------------------------------------------------------------------------
(* What the code does where C1, C3, C4, C6 and C10 fail.                   *)

NoTextCell(df) ==
    \A c \in DOMAIN df.columns : \A i \in 1..Len(df.columns[c]) : df.columns[c][i].kind # "str"

\* calc_stats' table has one column per distinct band, in sorted order.
CalcStatsColumnsSorted ==
    (call.op = "calc_stats" /\ call.ret.kind = "DataFrame")
    => /\ call.ret.columns = sorted({call.bands[i] : i \in 1..Len(call.bands)})
       /\ call.ret.index = IF Len(call.bands) = 0 THEN <<>> ELSE StatNames

\* On a table without a text column normalize_lc does what C3 and C4 say.
NormalizeOnNumericTable ==
    (call.op = "normalize_lc" /\ HasCol /\ AllDefined(Col) /\ NoTextCell(lc[call.data]))
    => /\ call.ret.kind = "Series"
       /\ Len(call.ret.vals) = Len(Col)
       /\ \A i \in 1..Len(Col) :
             call.ret.vals[i] =
                 IF NonConstant(Col)
                 THEN Div(Sub(Col[i], LowOf(Col)), Sub(HighOf(Col), LowOf(Col)))
                 ELSE Float(0, 1)
       /\ \A i \in 1..Len(Col) :
             Leq(Float(0, 1), call.ret.vals[i]) /\ Leq(call.ret.vals[i], Float(1, 1))

\* A text cell anywhere in the table makes normalize_lc raise a TypeError.
NormalizeOnTextTable ==
    (call.op = "normalize_lc" /\ HasCol /\ ~NoTextCell(lc[call.data]))
    => call.ret.kind = "TypeError"

\* On a text column mean_mag raises a TypeError, max_mag and min_mag
\* return one of its strings.
ReducersOnTextColumn ==
    (IsReducer /\ HasCol /\ Text(Col))
    => IF call.op = "mean_mag" THEN call.ret.kind = "TypeError"
       ELSE \E i \in 1..Len(Col) : call.ret = Col[i]


\* On a column with an undefined entry the reducers, and the cells of
\* calc_stats for that band, are the statistic of the defined rows, and
\* undefined only when no row is defined.
ReducersSkipNaN ==
    /\ (IsReducer /\ HasCol /\ Numeric(Col) /\ HasNaN(Col)) =>
          IsStatOf(StatOfOp[call.op], call.ret, Col)
    /\ (call.op = "calc_stats" /\ call.ret.kind = "DataFrame") =>
          \A b \in DOMAIN call.ret.cells : HasNaN(BandCol(b)) =>
              /\ IsStatOf("max", call.ret.cells[b].max, BandCol(b))
              /\ IsStatOf("mean", call.ret.cells[b].mean, BandCol(b))
              /\ IsStatOf("min", call.ret.cells[b].min, BandCol(b))

====
